---------------------------- MODULE Spec2Model ----------------------------
(***************************************************************************)
(* A model of the execution driver of osdu_perf:                           *)
(* PerformanceUser (osdu_perf/locust/user_base.py) and the header set      *)
(* built by InputHandler.prepare_headers (osdu_perf/core/input_handler.py).*)
(*                                                                         *)
(* One virtual user is modelled.  on_start builds the InputHandler and     *)
(* takes the list of services; every call of execute_services walks that   *)
(* list and drives each service through provide_explicit_token, prehook,   *)
(* execute and posthook.  The services are user code: what each call       *)
(* returns, whether it raises and what it does to the header dict it is    *)
(* handed are inputs, drawn from small sets.                               *)
(*                                                                         *)
(* The registry (ServiceOrchestrator) is modelled from the design          *)
(* document, sections 3 and 4.2, and from its unit tests: discovery over   *)
(* a scanned directory, registration, unregistration and lookup.  Spec     *)
(* follows a session through on_start and execute_services; SpecRegistry   *)
(* calls the registry's operations in any order.                           *)
(*                                                                         *)
(* SpecInput constructs the InputHandler on its own, in every process      *)
(* environment and with a token manager that may fail.  SpecCli runs the   *)
(* commands of the cli (osdu_perf/cli.py): init_project with its prompt,   *)
(* _should_create_file, and run_azure_load_tests from the search for test  *)
(* files on.                                                               *)
(***************************************************************************)
EXTENDS Integers, Sequences, FiniteSets, TLC

\* ------------------------------------------------------------------ bounds
MaxServices == 2     \* services on_start may obtain from get_services()
MaxFiles == 2        \* files one scan of the directory may find
MaxObjects == 3      \* service instances made in one session
MaxRejected == 1     \* answers the prompt of init_project rejects in one run

\* ------------------------------------------------------------ Python values
\* Only str and None occur as tokens; a record keeps the two apart so that
\* the string "None" and the value None are different things.
None == [type |-> "NoneType"]
Str(s) == [type |-> "str", val |-> s]

\* bool(v) as `if token:` evaluates it (user_base.py line 48).
Truthy(v) == v.type = "str" /\ v.val # ""

\* format(v, "") as an f-string replacement field evaluates it.
Format(v) == IF v.type = "str" THEN v.val ELSE "None"

\* A dict is a function whose domain is the set of its keys.
DictSet(d, k, v) == [x \in (DOMAIN d) \cup {k} |-> IF x = k THEN v ELSE d[x]]
DictPop(d, k) == [x \in (DOMAIN d) \ {k} |-> d[x]]
EmptyDict == [x \in {} |-> ""]

\* ------------------------------------------------------------ InputHandler
\* The header dict prepare_headers returns.
prepare_headers(partition, app_id, token) ==
    [k \in {"Content-Type", "x-data-partition-id", "x-correlation-id", "Authorization"} |->
        CASE k = "Content-Type" -> "application/json"
          [] k = "x-data-partition-id" -> partition
          [] k = "x-correlation-id" -> app_id
          [] k = "Authorization" -> "Bearer " \o Format(token)]

\* The fields InputHandler.__init__ leaves on the object.
InputHandler(partition, base_url, app_id, token) ==
    [partition |-> partition,
     base_url |-> base_url,
     app_id |-> app_id,
     header |-> prepare_headers(partition, app_id, token)]

\* The token get_access_token hands back in the sessions modelled here.
SessionTokens == {Str("session-token")}

\* ----------------------------------------------------------- the environment
\* os.environ restricted to the variables InputHandler reads.  A variable is
\* unset (<<>>) or set to a string (<<s>>), possibly the empty one.
EnvNames ==
    {"AZURE_LOAD_TEST", "LOCUST_HOST", "LOCUST_USERS", "LOCUST_RUN_TIME",
     "LOCUST_SPAWN_RATE", "PARTITION", "APPID"}

\* The values a variable is given in the environments modelled.
EnvValues(name) ==
    CASE name = "AZURE_LOAD_TEST" -> {<<>>, <<"true">>, <<"false">>}
      [] name = "LOCUST_HOST" -> {<<>>, <<"">>, <<"https://alt.osdu.com">>}
      [] name = "PARTITION" -> {<<>>, <<"alt-partition">>}
      [] name = "APPID" -> {<<>>, <<"alt-app">>}
      [] OTHER -> {<<>>, <<"">>, <<"10">>}

NoEnviron == [name \in EnvNames |-> <<>>]

\* os.getenv(name, default): <<>> stands for None.
getenv(env, name, default) == IF env[name] = <<>> THEN default ELSE env[name]

\* The detection with the platform flag as its only signal.
detect_azure_load_test_environment_FlagOnly(env) ==
    getenv(env, "AZURE_LOAD_TEST", <<>>) = <<"true">>

\* InputHandler._detect_azure_load_test_environment: the five tests in the
\* order of the code, the first that succeeds returns True.
detect_azure_load_test_environment(env) ==
    IF getenv(env, "AZURE_LOAD_TEST", <<>>) = <<"true">> THEN TRUE
    ELSE IF getenv(env, "LOCUST_HOST", <<>>) # <<>> THEN TRUE
    ELSE IF getenv(env, "LOCUST_USERS", <<>>) # <<>> THEN TRUE
    ELSE IF getenv(env, "LOCUST_RUN_TIME", <<>>) # <<>> THEN TRUE
    ELSE IF getenv(env, "LOCUST_SPAWN_RATE", <<>>) # <<>> THEN TRUE
    ELSE FALSE

\* The Locust environment handed to InputHandler: the host and the parsed
\* options of the command line.
TestEnvironment ==
    [host |-> "https://test.osdu.com",
     parsed_options |-> [partition |-> "test-partition", appid |-> "test-app"]]

\* What the token manager does when prepare_headers asks it for a token:
\* it returns one, it returns None, or the call raises.
ManagerOutcomes ==
    {[kind |-> "return", token |-> tok] : tok \in SessionTokens \cup {None}}
    \cup {[kind |-> "raise", token |-> None]}

\* InputHandler(environment) in the process environment env, the token
\* manager answering with `outcome`: the fields of the object, the token
\* manager it made and the one request for a token, and whether an exception
\* left __init__ (prepare_headers has no handler around the token manager).
Construct(env, environment, outcome) ==
    LET azure == detect_azure_load_test_environment(env)
        partition == IF azure THEN getenv(env, "PARTITION", <<"default_partition">>)[1]
                     ELSE environment.parsed_options.partition
        base_url == IF azure THEN getenv(env, "LOCUST_HOST", <<"https://default.url">>)[1]
                    ELSE environment.host
        app_id == IF azure THEN getenv(env, "APPID", <<"default_app_id">>)[1]
                  ELSE environment.parsed_options.appid
    IN  [object |-> InputHandler(partition, base_url, app_id, outcome.token)
                       @@ [is_azure_load_test_env |-> azure],
         request |-> [use_managed_identity |-> azure,
                      client_id |-> app_id,
                      scope |-> "api://" \o app_id \o "/.default",
                      ret |-> outcome.token],
         raised |-> outcome.kind = "raise"]

\* ----------------------------------------------------------------- services
StageNames == {"provide_explicit_token", "prehook", "execute", "posthook"}
HookNames == {"prehook", "execute", "posthook"}

\* The callable attributes a service object may carry: a BaseService
\* subclass has all four, a duck-typed object may lack any but execute.
ServiceShapes == {StageNames, {"execute"}, {"prehook", "execute"}}

\* The keyword arguments the driver passes in each of the three hook calls.
Keywords == {"headers", "partition", "base_url"}

\* The parameters other than self a hook declares, per hook: every hook
\* declares the three the driver passes, or prehook and posthook declare none,
\* as in BaseService and in the services of the unit tests.
TakesKeywords == [h \in HookNames |-> Keywords]
AsInBaseService == [h \in HookNames |-> IF h = "execute" THEN Keywords ELSE {}]

\* The declarations a service of a given shape may have: those as in
\* BaseService are taken for its subclasses, which have all four methods.
SignaturesOf(shape) ==
    IF shape = StageNames THEN {TakesKeywords, AsInBaseService} ELSE {TakesKeywords}

\* Binding the arguments of a call to the parameters declared: a keyword
\* without a parameter of its name is a TypeError raised at the call, before
\* the body of the method is entered.
Binds(declared, passed) == passed \subseteq declared

ServiceIds == 1 .. MaxServices

\* What provide_explicit_token of service s may return.
TokenOf(s) == "tok" \o ToString(s)
TokenReturns(s) == {None, Str(""), Str(TokenOf(s))}

\* What a hook of service s may do to the dict it is handed.
MarkOf(s) == "by_service" \o ToString(s)
Mutations(s) ==
    {[op |-> "none", key |-> "", val |-> ""],
     [op |-> "set", key |-> "modified", val |-> MarkOf(s)],
     [op |-> "set", key |-> "Authorization", val |-> MarkOf(s)],
     [op |-> "pop", key |-> "x-data-partition-id", val |-> ""]}

Mutate(d, m) ==
    CASE m.op = "none" -> d
      [] m.op = "set" -> DictSet(d, m.key, m.val)
      [] m.op = "pop" -> DictPop(d, m.key)

\* How a call of user code ends: it returns, or raises an instance of
\* Exception (a failure of the service, as in the failing services of the
\* unit tests).  SystemExit, KeyboardInterrupt and GreenletExit, by which the
\* interpreter and the load engine stop a user, are not failures of a service
\* and are not modelled.
Outcomes == {"ok", "Exception"}

\* The classes raised in the model that are subclasses of Exception.
ExceptionClasses == {"Exception", "TypeError"}

\* Catches with the posthook call left outside any try block.
Catches_PosthookUnguarded(stage, exc) ==
    exc \in ExceptionClasses /\ stage # "posthook"

\* `except Exception` at each of the four call sites: which raised classes
\* the handler of that stage catches.
Catches(stage, exc) == exc \in ExceptionClasses

\* The message logger.error is given when the call of `stage` raised.
LogMessage(stage) ==
    CASE stage = "provide_explicit_token" -> "Providing explicit token failed"
      [] stage = "prehook" -> "Service prehook failed"
      [] stage = "execute" -> "Service execution failed"
      [] stage = "posthook" -> "Service posthook failed"

\* AfterReturn with execute placed before prehook in the loop body.
AfterReturn_Swapped(stage) ==
    CASE stage = "provide_explicit_token" -> "execute"
      [] stage = "execute" -> "prehook"
      [] stage = "prehook" -> "posthook"
      [] stage = "posthook" -> "for"

\* Where control goes when the call of `stage` returned, or was skipped
\* because the service has no such callable attribute.
AfterReturn(stage) ==
    CASE stage = "provide_explicit_token" -> "prehook"
      [] stage = "prehook" -> "execute"
      [] stage = "execute" -> "posthook"
      [] stage = "posthook" -> "for"

\* AfterRaise without the `continue` of the prehook handler.
AfterRaise_NoContinue(stage) ==
    CASE stage = "provide_explicit_token" -> "prehook"
      [] stage = "prehook" -> "execute"
      [] stage = "execute" -> "posthook"
      [] stage = "posthook" -> "for"

\* AfterRaise with a `continue` in the execute handler too.
AfterRaise_ExecuteSkipsPosthook(stage) ==
    CASE stage = "provide_explicit_token" -> "prehook"
      [] stage = "prehook" -> "for"
      [] stage = "execute" -> "for"
      [] stage = "posthook" -> "for"

\* AfterRaise with `break` for the `continue` of the prehook handler.
AfterRaise_Break(stage) ==
    CASE stage = "provide_explicit_token" -> "prehook"
      [] stage = "prehook" -> "idle"
      [] stage = "execute" -> "posthook"
      [] stage = "posthook" -> "for"

\* AfterRaise with a `continue` in the token handler.
AfterRaise_TokenSkipsService(stage) ==
    CASE stage = "provide_explicit_token" -> "for"
      [] stage = "prehook" -> "for"
      [] stage = "execute" -> "posthook"
      [] stage = "posthook" -> "for"

\* Where control goes from the except clause of `stage`; "for" is the head of
\* the loop over the services (the `continue` of the prehook handler, and the
\* end of the loop body after the posthook handler).
AfterRaise(stage) ==
    CASE stage = "provide_explicit_token" -> "prehook"
      [] stage = "prehook" -> "for"
      [] stage = "execute" -> "posthook"
      [] stage = "posthook" -> "for"

\* ------------------------------------------------------------------- objects
\* Dicts are objects: `heap` holds their contents, and a name holds a
\* reference.  "base" is the dict InputHandler keeps in self.header, "copy"
\* the one the loop body makes for the service at hand.
Refs == {"base", "copy"}

\* dict_ref without the copy: `header = self.input_handler.header`.
dict_ref_alias(src) == src

\* dict_heap with the copy made once and kept for later turns.
dict_heap_stale(h, src) ==
    IF DOMAIN h["copy"] = {} THEN [h EXCEPT !["copy"] = h[src]] ELSE h

\* dict(src): the reference of the new dict, and the heap with it in it.
dict_ref(src) == "copy"
dict_heap(h, src) == [h EXCEPT !["copy"] = h[src]]

\* ApplyToken writing the bare token.
ApplyToken_NoPrefix(d, v) ==
    IF Truthy(v) THEN DictSet(d, "Authorization", Format(v)) ELSE d

\* ApplyToken with `if token is not None:` for `if token:`.
ApplyToken_NotNone(d, v) ==
    IF v # None THEN DictSet(d, "Authorization", "Bearer " \o Format(v)) ELSE d

\* header['Authorization'] = f"Bearer {token}" when the token is truthy.
ApplyToken(d, v) ==
    IF Truthy(v) THEN DictSet(d, "Authorization", "Bearer " \o Format(v)) ELSE d

\* ------------------------------------------------------------ the registry
\* ServiceOrchestrator keeps the list _services.  A service instance is an
\* object: its identity is its index in `objects`, which holds the class
\* each instance was made from.

\* The methods BaseService declares abstract.
AbstractMethods == {"execute", "provide_explicit_token", "prehook", "posthook"}

\* A class found in a loaded module, derived from BaseService: its name,
\* split before the suffix the registry looks for, the `name` attribute its
\* instances carry (<<>> when they carry none), and the methods of the
\* contract it defines: all four, as the classes of the tests do.
Class(stem, suffix, name) ==
    [cls |-> <<stem, suffix>>, name |-> name, defines |-> AbstractMethods]

\* Instantiation as of a plain class, without the abstract base.
CanInstantiate_NoABC(c) == TRUE

\* cls(...) for a subclass of BaseService: ABC refuses, with TypeError, a
\* class that leaves one of the abstract methods undefined.
CanInstantiate(c) == AbstractMethods \subseteq c.defines

\* A file of the scanned directory: its name (split around the part the
\* pattern leaves free), whether loading it as a module succeeds, and the
\* classes the module defines.
StorageFile ==
    [name |-> <<"perf_", "storage", "_test.py">>, loads |-> TRUE,
     classes |-> <<Class("Storage", "Helper", <<>>),
                   Class("Storage", "PerformanceTest", <<"storage">>)>>]
SearchFile ==
    [name |-> <<"perf_", "search", "_test.py">>, loads |-> TRUE,
     classes |-> <<Class("Search", "PerformanceTest", <<"search">>)>>]
\* two classes in one module: one whose instances have no name attribute,
\* and a second class whose instances are named "storage"
BlobFile ==
    [name |-> <<"perf_", "blob", "_test.py">>, loads |-> TRUE,
     classes |-> <<Class("Anon", "PerformanceTest", <<>>),
                   Class("Blob", "PerformanceTest", <<"storage">>)>>]
\* a file with a syntax error: loading it raises
BrokenFile ==
    [name |-> <<"perf_", "broken", "_test.py">>, loads |-> FALSE,
     classes |-> <<>>]
\* a class that derives from BaseService and defines execute alone
IncompleteFile ==
    [name |-> <<"perf_", "incomplete", "_test.py">>, loads |-> TRUE,
     classes |-> <<[Class("Incomplete", "PerformanceTest", <<"incomplete">>)
                       EXCEPT !.defines = {"execute"}]>>]
\* a file the pattern does not match
LocustFile ==
    [name |-> <<"", "locustfile", ".py">>, loads |-> TRUE,
     classes |-> <<Class("Osdu", "User", <<>>)>>]

Files == {StorageFile, SearchFile, BlobFile, BrokenFile, IncompleteFile, LocustFile}

\* What a scan may find, in scan order: up to MaxFiles different files.
Directories ==
    {d \in UNION {[1 .. k -> Files] : k \in 0 .. MaxFiles} :
        \A i, j \in DOMAIN d : d[i] = d[j] => i = j}

\* The names find_service is asked for.
Names == {"storage", "search", "missing"}

\* The file naming contract perf_*_test.py.
MatchesPattern(f) == f.name[1] = "perf_" /\ f.name[3] = "_test.py"

\* The class naming contract: the name ends in PerformanceTest.
Conforming(c) == c.cls[2] = "PerformanceTest"

\* The registry as discovery works on it: the list, the instances made so
\* far, what has been printed, and whether an exception is on its way out.
Registry(list, objs) ==
    [_services |-> list, objects |-> objs, printed |-> <<>>, raised |-> FALSE]

\* RegisterInstance without the membership test.
RegisterInstance_Unchecked(list, inst) == Append(list, inst)

\* `if service_instance not in self._services: self._services.append(...)`.
RegisterInstance(list, inst) ==
    IF \E i \in DOMAIN list : list[i] = inst THEN list ELSE Append(list, inst)

\* Instantiate the conforming classes of a loaded module, from the k-th on,
\* and register each instance; a class that cannot be instantiated raises.
RECURSIVE Instantiate(_, _, _)
Instantiate(R, classes, k) ==
    IF k > Len(classes) THEN R
    ELSE IF ~Conforming(classes[k]) THEN Instantiate(R, classes, k + 1)
    ELSE IF ~CanInstantiate(classes[k]) THEN [R EXCEPT !.raised = TRUE]
    ELSE LET inst == Len(R.objects) + 1
         IN  Instantiate([R EXCEPT !.objects = Append(@, classes[k]),
                                   !._services = RegisterInstance(@, inst)],
                         classes, k + 1)

\* LoadFile without the try block around the load.
LoadFile_Unguarded(R, f) ==
    IF f.loads THEN Instantiate(R, f.classes, 1) ELSE [R EXCEPT !.raised = TRUE]

\* Load one matching file; a file that fails to load, or a class of which
\* cannot be instantiated, is reported and skipped.
LoadFile(R, f) ==
    LET made == IF f.loads THEN Instantiate(R, f.classes, 1)
                ELSE [R EXCEPT !.raised = TRUE]
    IN  IF made.raised
        THEN [made EXCEPT !.raised = FALSE,
                          !.printed = Append(@, "Failed to load test module")]
        ELSE made

\* LoadFiles walking the scan from its far end.
RECURSIVE LoadFiles_Reversed(_, _, _)
LoadFiles_Reversed(R, files, k) ==
    IF k > Len(files) \/ R.raised THEN R
    ELSE LoadFiles_Reversed(LoadFile(R, files[Len(files) + 1 - k]), files, k + 1)

\* The loop over the matching files, in scan order, from the k-th on; an
\* exception that leaves the loop body ends the loop.
RECURSIVE LoadFiles(_, _, _)
LoadFiles(R, files, k) ==
    IF k > Len(files) \/ R.raised THEN R
    ELSE LoadFiles(LoadFile(R, files[k]), files, k + 1)

\* Discover without the report of an empty scan.
Discover_Silent(R, dir) == LoadFiles(R, SelectSeq(dir, MatchesPattern), 1)

\* discover_and_register: scan, report an empty scan, else load the files.
Discover(R, dir) ==
    LET test_files == SelectSeq(dir, MatchesPattern)
    IN  IF test_files = <<>>
        THEN [R EXCEPT !.printed = Append(@, "No perf_*_test.py files found")]
        ELSE LoadFiles(R, test_files, 1)

\* The directories of the sessions on_start is followed through: every file
\* in them loads, and no more than MaxServices services come of them.
SessionDirectories ==
    {d \in {<<>>, <<LocustFile>>, <<StorageFile>>, <<StorageFile, SearchFile>>,
             <<StorageFile, BlobFile>>, <<StorageFile, SearchFile, BlobFile>>} :
        Len(Discover(Registry(<<>>, <<>>), d)._services) <= MaxServices}

\* The list without the first occurrence of inst.
RemoveFirst(list, inst) ==
    LET i == CHOOSE j \in DOMAIN list :
                 list[j] = inst /\ \A l \in 1 .. j - 1 : list[l] # inst
    IN  SubSeq(list, 1, i - 1) \o SubSeq(list, i + 1, Len(list))

\* Unregister by list.remove without the membership test: ValueError when
\* the instance is not in the list.
Unregister_Unguarded(list, inst) ==
    IF \E i \in DOMAIN list : list[i] = inst
    THEN [list |-> RemoveFirst(list, inst), raised |-> FALSE]
    ELSE [list |-> list, raised |-> TRUE]

\* unregister_service: remove the instance if present, else do nothing.
Unregister(list, inst) ==
    IF \E i \in DOMAIN list : list[i] = inst
    THEN [list |-> RemoveFirst(list, inst), raised |-> FALSE]
    ELSE [list |-> list, raised |-> FALSE]

\* Find reading service.name directly: AttributeError at the first service
\* met that has no such attribute.
RECURSIVE Find_NoDefault(_, _, _, _)
Find_NoDefault(list, objs, name, k) ==
    IF k > Len(list) THEN [ret |-> <<>>, raised |-> FALSE]
    ELSE IF objs[list[k]].name = <<>> THEN [ret |-> <<>>, raised |-> TRUE]
    ELSE IF objs[list[k]].name = <<name>> THEN [ret |-> <<list[k]>>, raised |-> FALSE]
    ELSE Find_NoDefault(list, objs, name, k + 1)

\* find_service: the first service from the k-th on whose name attribute is
\* `name`; <<>> (None) when there is none.  A service without the attribute
\* does not match.
RECURSIVE Find(_, _, _, _)
Find(list, objs, name, k) ==
    IF k > Len(list) THEN [ret |-> <<>>, raised |-> FALSE]
    ELSE IF objs[list[k]].name = <<name>> THEN [ret |-> <<list[k]>>, raised |-> FALSE]
    ELSE Find(list, objs, name, k + 1)

\* --------------------------------------------------------------------- state
\* ------------------------------------------------------------------ the cli
\* Strings the cli compares or normalises are sequences of characters.
key_o == <<"o">>
key_s == <<"s">>
key_b == <<"b">>
key_c == <<"c">>
overwrite == <<"o", "v", "e", "r", "w", "r", "i", "t", "e">>
skip == <<"s", "k", "i", "p">>
backup == <<"b", "a", "c", "k", "u", "p">>
cancel == <<"c", "a", "n", "c", "e", "l">>

\* str.lower(), on the letters that occur in the answers modelled.
Lower(ch) ==
    CASE ch = "O" -> "o"
      [] ch = "S" -> "s"
      [] ch = "K" -> "k"
      [] ch = "I" -> "i"
      [] ch = "P" -> "p"
      [] ch = "B" -> "b"
      [] ch = "C" -> "c"
      [] OTHER -> ch
lower(str) == [i \in DOMAIN str |-> Lower(str[i])]

\* str.strip(): the blanks at both ends go.
RECURSIVE strip(_)
strip(str) ==
    IF str = <<>> THEN str
    ELSE IF Head(str) = " " THEN strip(Tail(str))
    ELSE IF str[Len(str)] = " " THEN strip(SubSeq(str, 1, Len(str) - 1))
    ELSE str

\* What the user may type at the prompt.
RawAnswers ==
    {key_o, <<"O">>, overwrite, <<" ", "s", " ">>, <<"S", "K", "I", "P">>, key_b,
     backup, key_c, cancel, <<"x">>, <<>>}

\* The answers the prompt loop accepts, after normalisation.
Accepted == {key_o, overwrite, key_s, skip, key_b, backup, key_c, cancel}

\* What is typed during one run: answers the prompt rejects, up to
\* MaxRejected of them, then one it accepts.
AnswerSequences ==
    LET rejected == {a \in RawAnswers : strip(lower(a)) \notin Accepted}
        accepted == {a \in RawAnswers : strip(lower(a)) \in Accepted}
    IN  {Append(r, a) : r \in UNION {[1 .. k -> rejected] : k \in 0 .. MaxRejected},
                        a \in accepted}

\* The files init_project("storage") creates in perf_tests/.
TestFilename == "perf_storage_test.py"
ProjectFiles == {TestFilename, "requirements.txt", "README.md", "azureloadtest.py"}

\* The working directory before any project was made: no perf_tests/, no
\* file in it, no backup.  A file is absent, as the user left it ("user") or
\* as init_project writes it ("template"); a backup is a copy of the files.
NoProject ==
    [dir |-> FALSE, files |-> [f \in ProjectFiles |-> "absent"], backup |-> <<>>]

\* No command has run yet.
NoCommand == [name |-> ""]

\* _should_create_file with the words of the prompt accepted as well.
should_create_file_Words(files, filepath, choice) ==
    IF choice \in {key_o, overwrite} THEN TRUE
    ELSE IF choice \in {key_s, skip} THEN files[filepath] = "absent"
    ELSE IF choice \in {key_b, backup} THEN TRUE
    ELSE FALSE

\* _should_create_file(filepath, choice), os.path.exists read off `files`.
should_create_file(files, filepath, choice) ==
    IF choice = key_o THEN TRUE
    ELSE IF choice = key_s THEN files[filepath] = "absent"
    ELSE IF choice = key_b THEN TRUE
    ELSE FALSE

\* The prompt loop of init_project from the k-th answer on: the answer that
\* ends the loop, normalised, and the number of prompts shown.
RECURSIVE Ask(_, _)
Ask(answers, k) ==
    LET choice == strip(lower(answers[k]))
    IN  IF choice \in Accepted \/ k = Len(answers)
        THEN [choice |-> choice, prompts |-> k]
        ELSE Ask(answers, k + 1)

\* The choice made without asking, the directory being there and the test
\* file not: always overwrite.
choice_without_test_file_Overwrite(force) == key_o

\* `choice = 's' if not force else 'o'`.
choice_without_test_file(force) == IF ~force THEN key_s ELSE key_o

\* Whether init_project prompts: the test file is there and force is off.
Asks(d, force) == d.dir /\ d.files[TestFilename] # "absent" /\ ~force

\* init_project("storage", force) in the working directory d, the user
\* typing `answers` when asked, shutil.copytree ending as `copytree`.
InitProject(d, force, answers, copytree) ==
    LET asked == Asks(d, force)
        a == Ask(answers, 1)
        choice == IF ~d.dir THEN key_o
                  ELSE IF d.files[TestFilename] = "absent"
                       THEN choice_without_test_file(force)
                  ELSE IF force THEN key_o
                  ELSE a.choice
        cancelled == asked /\ choice \in {key_c, cancel}
        backs == asked /\ choice \in {key_b, backup}
        raised == backs /\ copytree = "raise"
        d1 == IF backs /\ ~raised THEN [d EXCEPT !.backup = <<d.files>>] ELSE d
        create == IF cancelled \/ raised THEN {}
                  ELSE {f \in ProjectFiles : should_create_file(d1.files, f, choice)}
    IN  [fs |-> IF cancelled \/ raised THEN d1
                ELSE [d1 EXCEPT !.dir = TRUE,
                                !.files = [f \in ProjectFiles |->
                                              IF f \in create THEN "template" ELSE @[f]]],
         force |-> force,
         answers |-> IF asked THEN SubSeq(answers, 1, a.prompts) ELSE <<>>,
         prompts |-> IF asked THEN a.prompts ELSE 0,
         choice |-> choice,
         backed_up |-> backs /\ ~raised,
         wrote |-> create,
         ended |-> IF raised THEN "raised" ELSE IF cancelled THEN "cancelled" ELSE "done"]

\* A path of a test file: the three parts of its base name.
PerfTestPath == <<"perf_", "storage", "_test.py">>
LocustfilePath == <<"", "locustfile", ".py">>
TempLocustfilePath == <<"tmp/", "locustfile", ".py">>

\* What manager.find_test_files(args.directory) may return.
FoundLists ==
    {<<>>, <<PerfTestPath>>, <<LocustfilePath>>, <<PerfTestPath, LocustfilePath>>}

\* `'locustfile' in os.path.basename(f).lower()`.
IsLocustfile(f) == f[2] = "locustfile"

\* How run_azure_load_tests gets to the search for test files, or ends
\* before it: the message it prints and its exit status (<<>> for a return).
Preludes ==
    {[at |-> "search", printed |-> "", exit |-> <<>>],
     [at |-> "import", printed |-> "Azure Load Testing dependencies not found", exit |-> <<1>>],
     [at |-> "parameters", printed |-> "Missing required parameters", exit |-> <<>>],
     [at |-> "directory", printed |-> "Directory not found", exit |-> <<1>>],
     [at |-> "authenticate", printed |-> "Azure authentication failed", exit |-> <<1>>],
     [at |-> "resource", printed |-> "Failed to create/get Load Testing resource", exit |-> <<1>>],
     [at |-> "cancelled", printed |-> "Operation cancelled by user", exit |-> <<1>>],
     [at |-> "reuse", printed |-> "Reusing existing test", exit |-> <<0>>]}

\* run_azure_load_tests(args) from the search for test files on: the list
\* find_test_files returned, and whether upload_and_run_test succeeded.
RunAzureLoadTests(found, success) ==
    LET has_locustfile == \E i \in DOMAIN found : IsLocustfile(found[i])
        test_files == IF ~has_locustfile THEN Append(found, TempLocustfilePath)
                      ELSE found
    IN  IF test_files = <<>>
        THEN [found |-> found, test_files |-> test_files,
              temp_locustfile |-> ~has_locustfile,
              packaged |-> <<>>, uploaded |-> FALSE,
              printed |-> "No test files found", exit |-> <<1>>]
        ELSE [found |-> found, test_files |-> test_files,
              temp_locustfile |-> ~has_locustfile,
              packaged |-> test_files, uploaded |-> TRUE,
              printed |-> IF success THEN "Azure Load Test started successfully"
                          ELSE "Azure Load Test failed to start",
              exit |-> IF success THEN <<>> ELSE <<1>>]

VARIABLES
    input_handler,  \* <<>> for None, else <<the InputHandler's fields>>; its
                    \* header field is the reference "base"
    services,       \* self.services: the sequence of service objects
    methods,        \* per service object, its callable attributes
    params,         \* per service object and hook, the parameters other than
                    \* self the method declares
    heap,           \* contents of the dict objects
    pc,             \* position in execute_services; "idle" outside it
    idx,            \* index in self.services of the loop variable `service`
    header,         \* the local `header`: a reference
    token,          \* the local `token`: <<>> unassigned, else <<value>>
    iter,           \* calls of execute_services begun so far, counted up to
                    \* two: a later pass starts as the second does
    propagated,     \* an exception left execute_services in this call
    calls,          \* calls made while the service at hand had its turn, in
                    \* order: [stage, result, wrote, svc], wrote the header
                    \* key the service wrote or removed during the call (""
                    \* if none), svc the object the method was called on
    recv,           \* per hook called on the service at hand, the headers
                    \* argument as it was when the call began
    given,          \* per hook entered on the service at hand, the keyword
                    \* arguments of the call: the reference passed as headers,
                    \* the partition and the base url
    errors,         \* logger.error messages while the service at hand ran
    prev,           \* the turn before the one at hand: the stages that raised
                    \* in it (of the service before in the list, none for the
                    \* first), and whether the private dict was left different
                    \* from the base headers (for the first service, by the
                    \* last one of the pass before)
    built,          \* the dict prepare_headers returned at construction
    environ,        \* os.environ, the variables InputHandler reads
    acquisitions,   \* the requests for a token made of the token manager, in
                    \* order
    fs,             \* the working directory: whether perf_tests/ exists, each
                    \* project file absent, as the user left it or as the
                    \* template writes it, and the files a backup holds
    cli,            \* the last command of the cli and what it did
    service_orchestrator,   \* the ServiceOrchestrator: its list _services
    objects,        \* the service instances made so far: per instance, its
                    \* class
    last_call       \* the last operation of the registry: its name, its
                    \* argument, the list before it, what it returned, what it
                    \* printed and whether it raised

vars == <<input_handler, services, methods, params, heap, pc, idx, header, token,
          iter, propagated, calls, recv, given, errors, prev, built,
          service_orchestrator, objects, last_call, environ, acquisitions,
          fs, cli>>

NoRecv == [x \in {} |-> EmptyDict]
NoGiven == [x \in {} |-> [headers |-> "copy", partition |-> "", base_url |-> ""]]

\* PerformanceUser.__init__: no input handler, no services.
Init ==
    /\ input_handler = <<>>
    /\ services = <<>>
    /\ methods = <<>>
    /\ params = <<>>
    /\ heap = [r \in Refs |-> EmptyDict]
    /\ pc = "idle"
    /\ idx = 0
    /\ header = "copy"
    /\ token = <<>>
    /\ iter = 0
    /\ propagated = FALSE
    /\ calls = <<>>
    /\ recv = NoRecv
    /\ given = NoGiven
    /\ errors = <<>>
    /\ prev = [failed |-> {}, changed |-> FALSE]
    /\ built = EmptyDict
    /\ service_orchestrator = [_services |-> <<>>]
    /\ objects = <<>>
    /\ last_call = [name |-> "__init__", arg |-> <<>>, before |-> <<>>,
                    ret |-> <<>>, printed |-> <<>>, raised |-> FALSE]
    /\ environ = NoEnviron
    /\ acquisitions = <<>>
    /\ fs = NoProject
    /\ cli = NoCommand

\* What lies outside the virtual user and its registry: the process
\* environment, the token manager's log and the cli's working directory.
Process == <<environ, acquisitions, fs, cli>>

\* The loop variable bound to the list read from its far end.
Service_Reversed == services[Len(services) + 1 - idx]

\* The service whose turn it is: the loop variable of
\* `for service in self.services:`.
Service == services[idx]

\* on_start: build the InputHandler, then take the services the orchestrator
\* holds.  The environment gives the partition, host and app id; the token
\* manager the token; discovery the services.
on_start ==
    /\ pc = "idle"
    /\ input_handler = <<>>
    /\ \E tok \in SessionTokens, dir \in SessionDirectories :
         LET made == Construct(environ, TestEnvironment,
                               [kind |-> "return", token |-> tok])
             ih == made.object
             R == Discover(Registry(service_orchestrator._services, objects), dir)
             n == Len(R._services)
         IN  \E m \in [1 .. n -> ServiceShapes], p \in [1 .. n -> {TakesKeywords, AsInBaseService}] :
                /\ \A i \in 1 .. n : p[i] \in SignaturesOf(m[i])
                /\ input_handler' = <<[ih EXCEPT !.header = "base"]>>
                /\ heap' = [heap EXCEPT !["base"] = ih.header]
                /\ built' = ih.header
                /\ acquisitions' = Append(acquisitions, made.request)
                /\ service_orchestrator' = [_services |-> R._services]
                /\ objects' = R.objects
                /\ last_call' = [name |-> "register_service", arg |-> dir,
                                 before |-> service_orchestrator._services,
                                 ret |-> <<>>, printed |-> R.printed,
                                 raised |-> R.raised]
                /\ services' = R._services
                /\ methods' = m
                /\ params' = p
    /\ UNCHANGED <<pc, idx, header, token, iter, propagated, calls, recv,
                   given, errors, prev, environ, fs, cli>>

Raised(cs) == {cs[i].stage : i \in {j \in DOMAIN cs : cs[j].result # "ok"}}

\* What the turn that just ended leaves in `prev`.
TurnSummary == [failed |-> Raised(calls), changed |-> heap[header] # built]

\* The task is scheduled: execute_services is entered.
execute_services ==
    /\ pc = "idle"
    /\ iter' = IF iter < 2 THEN iter + 1 ELSE iter
    /\ pc' = "for"
    /\ idx' = 0
    /\ propagated' = FALSE
    /\ calls' = <<>>
    /\ recv' = NoRecv
    /\ given' = NoGiven
    /\ errors' = <<>>
    /\ prev' = [failed |-> {},
                changed |-> IF idx >= 1 THEN TurnSummary.changed ELSE prev.changed]
    /\ token' = <<>>
    /\ UNCHANGED <<service_orchestrator, objects, last_call>>
    /\ UNCHANGED Process
    /\ UNCHANGED <<input_handler, services, methods, params, heap, header, built>>

\* The header provider read once before the loop, whatever the list holds.
ReadsHeader_BeforeLoop(i, n) == TRUE

\* Whether this step reads self.input_handler.header: the read is the first
\* statement of the loop body, so only when the list has a service left.
ReadsHeader(i, n) == i < n

\* The header read as a call that builds the header set anew.
input_handler_header_Rebuilt(log) == Append(log, log[1])

\* self.input_handler.header is an attribute assigned once in __init__:
\* reading it asks the token manager nothing.
input_handler_header(log) == log

\* `for service in self.services:` and the copy of the base headers that
\* opens the loop body; the function returns when the list is exhausted.
for_service ==
    /\ pc = "for"
    /\ IF ReadsHeader(idx, Len(services)) /\ input_handler = <<>>
       THEN \* None has no attribute `header`: AttributeError, unguarded
            /\ propagated' = TRUE
            /\ pc' = "idle"
            /\ UNCHANGED <<idx, header, heap, token, calls, recv, given, errors,
                           prev, acquisitions>>
       ELSE IF idx < Len(services)
            THEN /\ idx' = idx + 1
                 /\ acquisitions' = input_handler_header(acquisitions)
                 /\ header' = dict_ref(input_handler[1].header)
                 /\ heap' = dict_heap(heap, input_handler[1].header)
                 /\ token' = <<>>
                 /\ calls' = <<>>
                 /\ recv' = NoRecv
                 /\ given' = NoGiven
                 /\ errors' = <<>>
                 /\ prev' = IF idx >= 1 THEN TurnSummary ELSE prev
                 /\ pc' = "provide_explicit_token"
                 /\ UNCHANGED propagated
            ELSE /\ pc' = "idle"
                 /\ UNCHANGED <<idx, header, heap, token, calls, recv, given,
                                errors, prev, propagated, acquisitions>>
    /\ UNCHANGED <<service_orchestrator, objects, last_call>>
    /\ UNCHANGED <<environ, fs, cli>>
    /\ UNCHANGED <<input_handler, services, methods, params, iter, built>>

\* The guard without the attribute test: the method is called regardless.
HasCallable_Unguarded(svc, stage) == TRUE

\* `hasattr(service, stage) and callable(getattr(service, stage))`.
HasCallable(svc, stage) == stage \in methods[svc]

\* The except clause of `stage`, or the exception leaving the function when
\* no clause catches it.
Handle(stage, exc) ==
    IF Catches(stage, exc)
    THEN /\ errors' = Append(errors, LogMessage(stage))
         /\ pc' = AfterRaise(stage)
         /\ UNCHANGED propagated
    ELSE /\ propagated' = TRUE
         /\ pc' = "idle"
         /\ UNCHANGED errors

\* Lines 43-51: the optional token override.
provide_explicit_token ==
    /\ pc = "provide_explicit_token"
    /\ IF ~HasCallable(Service, "provide_explicit_token")
       THEN /\ pc' = AfterReturn("provide_explicit_token")
            /\ UNCHANGED <<heap, token, calls, errors, propagated>>
       ELSE \/ \E v \in TokenReturns(Service) :
                 /\ token' = <<v>>
                 /\ heap' = [heap EXCEPT ![header] = ApplyToken(@, v)]
                 /\ calls' = Append(calls, [stage |-> "provide_explicit_token", result |-> "ok", wrote |-> "", svc |-> Service])
                 /\ pc' = AfterReturn("provide_explicit_token")
                 /\ UNCHANGED <<errors, propagated>>
            \/ \E exc \in Outcomes \ {"ok"} :
                 /\ calls' = Append(calls, [stage |-> "provide_explicit_token", result |-> exc, wrote |-> "", svc |-> Service])
                 /\ Handle("provide_explicit_token", exc)
                 /\ UNCHANGED <<heap, token>>
    /\ UNCHANGED <<service_orchestrator, objects, last_call>>
    /\ UNCHANGED Process
    /\ UNCHANGED <<input_handler, services, methods, params, idx, header, iter, recv,
                   given, prev, built>>

\* A fresh copy of the base headers made for each call.
call_headers_Fresh(h, ref) == [h EXCEPT ![ref] = h["base"]]

\* The dicts as a hook finds them: `headers=header` passes the local
\* `header` itself, no copy is made at the call.
call_headers(h, ref) == h

\* One of the three guarded calls that are handed the header dict, the
\* partition and the base url as keyword arguments: the dict `header` names,
\* as the calls before left it.  A method that does not
\* declare them is not entered: the call raises TypeError.  A method that is
\* entered may change the dict before it returns or raises.
Hook(stage) ==
    /\ pc = stage
    /\ IF ~HasCallable(Service, stage)
       THEN /\ pc' = AfterReturn(stage)
            /\ UNCHANGED <<heap, calls, recv, given, errors, propagated>>
       ELSE IF ~Binds(params[Service][stage], Keywords)
            THEN /\ calls' = Append(calls, [stage |-> stage, result |-> "TypeError", wrote |-> "", svc |-> Service])
                 /\ Handle(stage, "TypeError")
                 /\ UNCHANGED <<heap, recv, given>>
            ELSE \E m \in Mutations(Service), out \in Outcomes :
                   /\ recv' = (stage :> call_headers(heap, header)[header]) @@ recv
                   /\ given' = (stage :> [headers |-> header,
                                           partition |-> input_handler[1].partition,
                                           base_url |-> input_handler[1].base_url]) @@ given
                   /\ heap' = [call_headers(heap, header) EXCEPT ![header] = Mutate(@, m)]
                   /\ calls' = Append(calls, [stage |-> stage, result |-> out, wrote |-> m.key, svc |-> Service])
                   /\ IF out = "ok"
                      THEN /\ pc' = AfterReturn(stage)
                           /\ UNCHANGED <<errors, propagated>>
                      ELSE Handle(stage, out)
    /\ UNCHANGED <<service_orchestrator, objects, last_call>>
    /\ UNCHANGED Process
    /\ UNCHANGED <<input_handler, services, methods, params, idx, header, token, iter,
                   prev, built>>

prehook == Hook("prehook")
execute == Hook("execute")
posthook == Hook("posthook")

Next ==
    \/ on_start
    \/ execute_services
    \/ for_service
    \/ provide_explicit_token
    \/ prehook
    \/ execute
    \/ posthook

Spec == Init /\ [][Next]_vars

\* ------------------------------------------------- the registry's operations
\* The registry of one session, its operations called in any order.  The
\* driver is at rest throughout.
Driver == <<input_handler, services, methods, params, heap, pc, idx, header,
            token, iter, propagated, calls, recv, given, errors, prev, built>>

\* register_service(client): discovery over the directory as it is scanned.
register_service ==
    \E dir \in Directories :
        LET R == Discover(Registry(service_orchestrator._services, objects), dir)
        IN  /\ Len(R.objects) <= MaxObjects
            /\ service_orchestrator' = [_services |-> R._services]
            /\ objects' = R.objects
            /\ last_call' = [name |-> "register_service", arg |-> dir,
                             before |-> service_orchestrator._services,
                             ret |-> <<>>, printed |-> R.printed,
                             raised |-> R.raised]
            /\ UNCHANGED Driver
            /\ UNCHANGED Process

\* Registration of an instance already made: one that is or was in the list.
register_instance ==
    \E inst \in DOMAIN objects :
        /\ service_orchestrator' =
              [_services |-> RegisterInstance(service_orchestrator._services, inst)]
        /\ last_call' = [name |-> "register_instance", arg |-> inst,
                         before |-> service_orchestrator._services,
                         ret |-> <<>>, printed |-> <<>>, raised |-> FALSE]
        /\ UNCHANGED <<objects, Driver>>
        /\ UNCHANGED Process

\* unregister_service(service), for any instance made so far.
unregister_service ==
    \E inst \in DOMAIN objects :
        LET r == Unregister(service_orchestrator._services, inst)
        IN  /\ service_orchestrator' = [_services |-> r.list]
            /\ last_call' = [name |-> "unregister_service", arg |-> inst,
                             before |-> service_orchestrator._services,
                             ret |-> <<>>, printed |-> <<>>, raised |-> r.raised]
            /\ UNCHANGED <<objects, Driver>>
            /\ UNCHANGED Process

\* find_service(name).
find_service ==
    \E name \in Names :
        LET r == Find(service_orchestrator._services, objects, name, 1)
        IN  /\ last_call' = [name |-> "find_service", arg |-> name,
                             before |-> service_orchestrator._services,
                             ret |-> r.ret, printed |-> <<>>, raised |-> r.raised]
            /\ UNCHANGED <<service_orchestrator, objects, Driver>>
            /\ UNCHANGED Process

\* get_services().
get_services ==
    /\ last_call' = [name |-> "get_services", arg |-> <<>>,
                     before |-> service_orchestrator._services,
                     ret |-> service_orchestrator._services,
                     printed |-> <<>>, raised |-> FALSE]
    /\ UNCHANGED <<service_orchestrator, objects, Driver>>
    /\ UNCHANGED Process

NextRegistry ==
    \/ register_service
    \/ register_instance
    \/ unregister_service
    \/ find_service
    \/ get_services

SpecRegistry == Init /\ [][NextRegistry]_vars

\* ---------------------------------------------------- reading the call record
\* A service is at hand: the loop variable is bound.
InTurn == idx \in 1 .. Len(services)

\* The loop body has been left for the service at hand.
TurnOver == InTurn /\ pc \in {"for", "idle"}

StagesOf(cs) == [i \in DOMAIN cs |-> cs[i].stage]
Called(stage) == \E i \in DOMAIN calls : calls[i].stage = stage
Times(stage) == Cardinality({i \in DOMAIN calls : calls[i].stage = stage})
RaisedIn(stage) == \E i \in DOMAIN calls : calls[i].stage = stage /\ calls[i].result # "ok"
Rank(stage) ==
    CASE stage = "provide_explicit_token" -> 1
      [] stage = "prehook" -> 2
      [] stage = "execute" -> 3
      [] stage = "posthook" -> 4

\* The service at hand itself wrote or removed key k in a call before `stage`.
WroteBefore(stage, k) ==
    \E i, j \in DOMAIN calls : i < j /\ calls[j].stage = stage /\ calls[i].wrote = k

\* The token override in force for the service at hand.
Overridden == token # <<>> /\ Truthy(token[1])

\* ------------------------------------------------------------------- claims

\* C1: when the prehook of a service raised in a pass, neither execute nor
\* posthook of that service is called in that pass, and control is back at
\* the head of the loop, that is, at the next service (or at the return when
\* it was the last one).
C1_PrehookFailureSkipsService ==
    (InTurn /\ RaisedIn("prehook")) =>
        /\ ~Called("execute")
        /\ ~Called("posthook")
        /\ pc \in {"for", "idle"}
        /\ ~propagated

\* C1 witness: a service with all four methods whose prehook raised, with
\* another service still to come.
C1_Witness ==
    /\ InTurn /\ idx < Len(services)
    /\ methods[Service] = StageNames
    /\ RaisedIn("prehook")
    /\ pc = "for"

\* C2: when the execute of a service raised (its prehook having completed),
\* the posthook of that service is called exactly once in that pass, after
\* execute: it is the next call made, and once the loop body is left the
\* record ends with that single posthook call.
C2_PosthookAfterFailedExecute ==
    (InTurn /\ RaisedIn("execute") /\ "posthook" \in methods[Service]) =>
        /\ pc = "posthook" => Times("posthook") = 0
        /\ pc # "posthook" =>
              /\ Times("posthook") = 1
              /\ calls[Len(calls)].stage = "posthook"
              /\ calls[Len(calls) - 1].stage = "execute"

\* C2 witness: execute raised, and posthook has been called since.
C2_Witness ==
    /\ TurnOver
    /\ RaisedIn("execute")
    /\ Times("posthook") = 1

\* The messages the raising calls of the record must have left in the log.
ExpectedErrors ==
    LET bad == SelectSeq(calls, LAMBDA c : c.result # "ok")
    IN  [i \in DOMAIN bad |-> LogMessage(bad[i].stage)]

\* C3: no exception raised by a stage of a service leaves execute_services,
\* whatever stages fail: each is caught at its call site, and logged with the
\* message of its stage.
C3_NoExceptionPropagates ==
    /\ ~propagated
    /\ errors = ExpectedErrors

\* C3 witness: a pass has returned in which every stage raised: prehook for an
\* earlier service, and token provision, execute and posthook for the last.
C3_Witness ==
    /\ pc = "idle" /\ iter >= 1
    /\ InTurn
    /\ idx >= 2
    /\ "prehook" \in prev.failed
    /\ RaisedIn("provide_explicit_token")
    /\ RaisedIn("execute")
    /\ RaisedIn("posthook")

\* The stages the driver calls on `svc`, given only what the service itself
\* is and whether its own prehook raised.
OwnLifecycle(svc, prehookRaised) ==
    LET order == <<"provide_explicit_token", "prehook", "execute", "posthook">>
        upto == IF prehookRaised THEN SubSeq(order, 1, 2) ELSE order
    IN  SelectSeq(upto, LAMBDA st : st \in methods[svc])

\* C4: a failure in any stage of a service A leaves the lifecycle calls of
\* every service B registered after A as they would be without it: the pass
\* reaches every service, and the calls made on B are those its own methods
\* and its own prehook result determine - all four for a complete service
\* whose own prehook does not raise.
C4_LaterServicesUnaffected ==
    /\ (InTurn /\ pc = "idle") => idx = Len(services)
    /\ (TurnOver /\ idx >= 2 /\ prev.failed # {}) =>
          StagesOf(calls) = OwnLifecycle(Service, RaisedIn("prehook"))

\* C4 witness: token provision, execute and posthook all raised for an
\* earlier service, and the complete service after it got all four calls.
C4_Witness ==
    /\ TurnOver
    /\ idx >= 2
    /\ prev.failed = {"provide_explicit_token", "execute", "posthook"}
    /\ StagesOf(calls) = <<"provide_explicit_token", "prehook", "execute", "posthook">>

\* Values only service a puts into a header dict: its marks, and the
\* Authorization override applied for it.
ValuesOf(a) == {MarkOf(a), "Bearer " \o TokenOf(a)}

\* C5: nothing another service added, changed or removed is in a header dict
\* a service receives, in this pass or a later one: the dict holds no value
\* of another service (its marks, its Authorization override), no key the
\* base lacks unless the receiving service added it itself, and every key of
\* the base unless the receiving service removed it itself.
C5_HeaderIsolationBetweenServices ==
    InTurn =>
        \A stage \in DOMAIN recv :
            LET h == recv[stage]
            IN  /\ \A k \in DOMAIN h : \A a \in ServiceIds \ {Service} : h[k] \notin ValuesOf(a)
                /\ \A k \in (DOMAIN h) \ (DOMAIN built) : WroteBefore(stage, k)
                /\ \A k \in (DOMAIN built) \ (DOMAIN h) : WroteBefore(stage, k)

\* C5 witness: the service of the turn before left its dict changed, and the
\* service at hand has received a dict in each of its three hooks.
C5_Witness ==
    /\ InTurn
    /\ Len(services) >= 2
    /\ prev.changed
    /\ DOMAIN recv = HookNames

\* C6: the dict made for a service at the start of its turn equals the base
\* headers as they were built at session start, in every pass: nothing the
\* service wrote, and no override applied for it, in an earlier pass is in it.
C6_FreshCopyEveryIteration ==
    pc = "provide_explicit_token" => heap[header] = built

\* C6 witness: a later pass reaches the only service, which left its dict
\* changed in the pass before.
C6_Witness ==
    /\ pc = "provide_explicit_token"
    /\ iter >= 2
    /\ Len(services) = 1
    /\ prev.changed

\* C7: with a non-empty token t returned by provide_explicit_token, the
\* Authorization entry of the dict handed to prehook, execute and posthook of
\* that service is "Bearer " + t; a service with no override is handed the
\* session's Authorization.  (The three hooks are handed one dict: an entry
\* the service itself overwrote in an earlier hook is its own doing and is
\* not the driver's value any more.)
C7_TokenOverride ==
    InTurn =>
        \A stage \in DOMAIN recv :
            ~WroteBefore(stage, "Authorization") =>
                /\ "Authorization" \in DOMAIN recv[stage]
                /\ recv[stage]["Authorization"] =
                      IF Overridden THEN "Bearer " \o token[1].val
                      ELSE built["Authorization"]

\* C7 witness: the second service returned its token and its three hooks got
\* "Bearer " + that token, while the first service had no override and left
\* its dict as copied.
C7_Witness ==
    /\ InTurn /\ idx = 2
    /\ ~prev.changed
    /\ token = <<Str(TokenOf(Service))>>
    /\ DOMAIN recv = HookNames
    /\ \A stage \in HookNames : recv[stage]["Authorization"] = "Bearer " \o TokenOf(Service)

\* provide_explicit_token returned, and returned None or "".
EmptyToken == token # <<>> /\ ~Truthy(token[1])

\* C8: a None or empty token is no override: the dict is left as copied from
\* the base, so the first hook called is handed exactly the base headers,
\* and every hook the session's Authorization, neither replaced nor blanked
\* (short of the service overwriting the entry itself in an earlier hook).
C8_EmptyTokenIsNoOverride ==
    (InTurn /\ EmptyToken) =>
        /\ pc = "prehook" => heap[header] = built
        /\ \A stage \in DOMAIN recv :
              /\ calls[2].stage = stage => recv[stage] = built
              /\ ~WroteBefore(stage, "Authorization") =>
                    /\ "Authorization" \in DOMAIN recv[stage]
                    /\ recv[stage]["Authorization"] = built["Authorization"]

\* C8 witness: the empty string was returned and a hook has been called.
C8_Witness ==
    /\ InTurn
    /\ token = <<Str("")>>
    /\ Len(calls) >= 2

\* C9: when provide_explicit_token raises, the override is absent and the
\* rest of the lifecycle runs: prehook is the next call and is handed the
\* base headers with the session's Authorization, then execute and posthook
\* follow as for any service.
C9_TokenFailureIsNoOverride ==
    (InTurn /\ RaisedIn("provide_explicit_token")) =>
        /\ token = <<>>
        /\ pc = "prehook" => heap[header] = built
        /\ "prehook" \in DOMAIN recv => recv["prehook"] = built
        /\ TurnOver => StagesOf(calls) = OwnLifecycle(Service, RaisedIn("prehook"))

\* C9 witness: token provision raised and the three hooks were called all
\* the same.
C9_Witness ==
    /\ TurnOver
    /\ RaisedIn("provide_explicit_token")
    /\ StagesOf(calls) = <<"provide_explicit_token", "prehook", "execute", "posthook">>

\* C10: the calls made on one service in one pass are in the order
\* provide_explicit_token, prehook, execute, posthook, none repeated.
C10_StageOrder ==
    \A i, j \in DOMAIN calls : i < j => Rank(calls[i].stage) < Rank(calls[j].stage)

\* C10 witness: all four stages have been called on a service.
C10_Witness ==
    /\ TurnOver
    /\ Len(calls) = 4


\* C11: services are processed in the order of the list, strictly one after
\* another.  Every call is made on the service the loop variable is bound to,
\* which is the one at the position the pass has reached; the position only
\* moves from the head of the loop, by one, and a call never moves it: so
\* all calls on the service at position k are made before any call on the
\* one at position k + 1, and none in between.
C11_RegistryOrder ==
    [][/\ (idx' # idx /\ idx' # 0) => (pc = "for" /\ idx' = idx + 1)
       /\ (calls' # calls /\ calls' # <<>>) =>
             /\ idx' = idx
             /\ idx \in 1 .. Len(services)
             /\ Len(calls') = Len(calls) + 1
             /\ calls'[Len(calls')].svc = services[idx]
             /\ \A i \in DOMAIN calls : calls'[i] = calls[i]]_vars

\* C11 witness: the second service of the list is being called, after the
\* first one, which has all four methods, had its turn.
C11_Witness ==
    /\ idx = 2
    /\ methods[1] = StageNames
    /\ prev.failed = {"execute"}
    /\ calls # <<>>
    /\ calls[Len(calls)].svc = services[2]

\* C12: execute_services never modifies the base header map of the session:
\* whatever passes have run, whatever the services did to the dicts they were
\* handed and whatever tokens they supplied, input_handler.header is still
\* the object built at construction and holds what prepare_headers put in it.
C12_BaseHeadersUnchanged ==
    input_handler # <<>> =>
        /\ input_handler[1].header = "base"
        /\ heap["base"] = built
        /\ \E tok \in SessionTokens :
              built = prepare_headers("test-partition", "test-app", tok)

\* C12 witness: in a second pass or later, the private dict at hand carries
\* both a token override and a change made by the service, and the pass
\* before had left its dict changed as well.
C12_Witness ==
    /\ input_handler # <<>>
    /\ iter >= 2
    /\ prev.changed
    /\ InTurn
    /\ Overridden
    /\ \E i \in DOMAIN calls : calls[i].wrote = "x-data-partition-id"
    /\ heap[header] # built

\* C13: for a BaseService subclass whose prehook and posthook are declared as
\* in the abstract base (no parameter other than self) and none of whose
\* methods raises, one pass of execute_services invokes all four of
\* provide_explicit_token, prehook, execute and posthook on it.  (Stated as
\* the claim has it; the driver passes prehook three keyword arguments, so
\* the call raises TypeError and the turn ends there.)
C13_DeclaredServiceFullyDriven ==
    (/\ TurnOver
     /\ methods[Service] = StageNames
     /\ params[Service] = AsInBaseService
     /\ \A i \in DOMAIN calls : calls[i].result # "Exception") =>
        \A stage \in StageNames : Called(stage)

\* C13 witness: the turn of such a service is over, its token method has
\* returned, and the only other call made is the prehook call that could not
\* be bound.
C13_Witness ==
    /\ TurnOver
    /\ methods[Service] = StageNames
    /\ params[Service] = AsInBaseService
    /\ Len(calls) = 2
    /\ calls[1].stage = "provide_explicit_token" /\ calls[1].result = "ok"
    /\ calls[2].stage = "prehook" /\ calls[2].result = "TypeError"
    /\ errors = <<"Service prehook failed">>

\* C14: a service that lacks provide_explicit_token, prehook and/or posthook
\* is still driven.  A stage it lacks is skipped without error: no call, no
\* message logged for it, nothing propagated; and unless a prehook it does
\* have failed, execute is called, once, with a private copy of the session
\* headers (the copy as it is when nothing was there to change it), the
\* session partition and the session base url.
C14_MissingStagesSkipped ==
    (TurnOver /\ methods[Service] # StageNames) =>
        /\ ~propagated
        /\ \A stage \in StageNames \ methods[Service] :
              /\ ~Called(stage)
              /\ \A i \in DOMAIN errors : errors[i] # LogMessage(stage)
        /\ ~RaisedIn("prehook") =>
              /\ Times("execute") = 1
              /\ "execute" \in DOMAIN given
              /\ given["execute"].headers # input_handler[1].header
              /\ given["execute"].partition = "test-partition"
              /\ given["execute"].base_url = "https://test.osdu.com"
              /\ methods[Service] = {"execute"} => recv["execute"] = built

\* C14 witness: a service with nothing but execute has had its turn: one
\* call, of execute, which returned, and nothing logged.
C14_Witness ==
    /\ TurnOver
    /\ methods[Service] = {"execute"}
    /\ StagesOf(calls) = <<"execute">>
    /\ calls[1].result = "ok"
    /\ errors = <<>>
    /\ given["execute"] = [headers |-> "copy", partition |-> "test-partition",
                           base_url |-> "https://test.osdu.com"]

\* ------------------------------------------------------ reading the registry
\* inst is in the list.
Listed(list, inst) == \E i \in DOMAIN list : list[i] = inst

\* The list before the last operation is the head of the list after it, and
\* what the operation appended.
Extends == /\ Len(service_orchestrator._services) >= Len(last_call.before)
           /\ SubSeq(service_orchestrator._services, 1, Len(last_call.before)) = last_call.before
Appended ==
    SubSeq(service_orchestrator._services, Len(last_call.before) + 1,
           Len(service_orchestrator._services))

\* The file can be loaded and its conforming classes keep the contract.
Usable(f) ==
    /\ f.loads
    /\ \A k \in DOMAIN f.classes :
          Conforming(f.classes[k]) => f.classes[k].defines = AbstractMethods

\* The classes a scan offers for registration, in scan order: the conforming
\* classes of the matching files that load.
RECURSIVE Offered(_)
Offered(files) ==
    IF files = <<>> THEN <<>>
    ELSE (IF MatchesPattern(Head(files)) /\ Usable(Head(files))
          THEN SelectSeq(Head(files).classes, Conforming)
          ELSE <<>>) \o Offered(Tail(files))

\* C15: whatever discovery, registration and unregistration has been done, no
\* instance is in the list more than once; and registering an instance that
\* is in the list leaves the list as it was.
C15_NoDuplicateInstance ==
    /\ \A i, j \in DOMAIN service_orchestrator._services :
          service_orchestrator._services[i] = service_orchestrator._services[j] => i = j
    /\ (last_call.name = "register_instance" /\ Listed(last_call.before, last_call.arg)) =>
          /\ service_orchestrator._services = last_call.before
          /\ ~last_call.raised

\* C15 witness: an instance that was in a list of two has just been
\* registered again, after another instance had been unregistered.
C15_Witness ==
    /\ last_call.name = "register_instance"
    /\ Listed(last_call.before, last_call.arg)
    /\ Len(last_call.before) = 2
    /\ Len(objects) = 3

\* C16: unregister_service removes a registered instance, leaving the others
\* in their order; for an instance that is not registered it raises nothing
\* and leaves the contents and the order of the list unchanged.
C16_UnregisterService ==
    last_call.name = "unregister_service" =>
        /\ ~last_call.raised
        /\ IF Listed(last_call.before, last_call.arg)
           THEN /\ ~Listed(service_orchestrator._services, last_call.arg)
                /\ service_orchestrator._services =
                      SelectSeq(last_call.before, LAMBDA x : x # last_call.arg)
                /\ Len(service_orchestrator._services) = Len(last_call.before) - 1
           ELSE service_orchestrator._services = last_call.before

\* C16 witness: an instance that had been removed before is unregistered
\* again, from a list that holds two others.
C16_Witness ==
    /\ last_call.name = "unregister_service"
    /\ ~Listed(last_call.before, last_call.arg)
    /\ Len(last_call.before) = 2
    /\ service_orchestrator._services = last_call.before

\* C17: find_service(name) returns the earliest registered service whose name
\* attribute is `name`, and None, raising nothing, when there is none;
\* a service without a name attribute is never the match and never an error.
\* Instances of different classes with one name are all kept by discovery
\* (every class offered is registered, whatever its name), and the first of
\* them is the one found.
C17_FindService ==
    /\ last_call.name = "find_service" =>
          LET list == service_orchestrator._services
              hits == {i \in DOMAIN list : objects[list[i]].name = <<last_call.arg>>}
          IN  /\ ~last_call.raised
              /\ list = last_call.before
              /\ hits = {} => last_call.ret = <<>>
              /\ hits # {} =>
                    \E i \in hits : /\ \A j \in hits : i <= j
                                    /\ last_call.ret = <<list[i]>>
    /\ (last_call.name = "register_service" /\ ~last_call.raised) =>
          Len(service_orchestrator._services) =
              Len(last_call.before) + Len(Offered(last_call.arg))

\* C17 witness: the list holds a service without a name and two services of
\* different classes named "storage"; find_service("storage") has returned
\* the one registered first of the two, which is not the first of the list.
C17_Witness ==
    /\ last_call.name = "find_service"
    /\ last_call.arg = "storage"
    /\ Len(service_orchestrator._services) = 3
    /\ objects[service_orchestrator._services[1]].name = <<>>
    /\ objects[service_orchestrator._services[2]].name = <<"storage">>
    /\ objects[service_orchestrator._services[3]].name = <<"storage">>
    /\ objects[service_orchestrator._services[2]] # objects[service_orchestrator._services[3]]
    /\ last_call.ret = <<service_orchestrator._services[2]>>

\* C18: when discovery finds no file matching perf_*_test.py, on_start raises
\* nothing, the condition is reported, and the registry and the session's
\* list of services are empty; from then on every call of execute_services
\* makes no lifecycle call at all: no call, no headers handed out, nothing
\* logged, nothing propagated, in any pass.
C18_ZeroDiscovery ==
    (/\ last_call.name = "register_service"
     /\ SelectSeq(last_call.arg, MatchesPattern) = <<>>) =>
        /\ ~last_call.raised
        /\ last_call.printed = <<"No perf_*_test.py files found">>
        /\ service_orchestrator._services = <<>>
        /\ services = <<>>
        /\ input_handler # <<>>
        /\ pc \in {"idle", "for"}
        /\ idx = 0
        /\ calls = <<>> /\ recv = NoRecv /\ given = NoGiven /\ errors = <<>>
        /\ ~propagated

\* C18 witness: a session started in a directory that holds a file, but none
\* matching the pattern, has been through execute_services twice or more.
C18_Witness ==
    /\ last_call.name = "register_service"
    /\ last_call.arg = <<LocustFile>>
    /\ services = <<>>
    /\ iter >= 2
    /\ pc = "idle"

\* C19: a matching file that fails to load is reported and skipped: discovery
\* raises nothing, prints one failure message per such file, and every class
\* offered by the other matching files is instantiated and registered.
C19_BadFileSkipped ==
    last_call.name = "register_service" =>
        LET test_files == SelectSeq(last_call.arg, MatchesPattern)
            bad == {i \in DOMAIN test_files : ~Usable(test_files[i])}
            failures == {i \in DOMAIN last_call.printed :
                            last_call.printed[i] = "Failed to load test module"}
        IN  /\ ~last_call.raised
            /\ Cardinality(failures) = Cardinality(bad)
            /\ Extends
            /\ \A i \in DOMAIN test_files :
                  Usable(test_files[i]) =>
                      \A k \in DOMAIN test_files[i].classes :
                          Conforming(test_files[i].classes[k]) =>
                              \E j \in DOMAIN Appended :
                                  objects[Appended[j]] = test_files[i].classes[k]

\* C19 witness: a scan met the broken file first and a file that loads after
\* it; the failure was printed and the service of the second file registered.
C19_Witness ==
    /\ last_call.name = "register_service"
    /\ last_call.arg = <<BrokenFile, SearchFile>>
    /\ last_call.printed = <<"Failed to load test module">>
    /\ Len(Appended) = 1
    /\ objects[Appended[1]].name = <<"search">>

setenv ==
    /\ input_handler = <<>>
    /\ acquisitions = <<>>
    /\ \E name \in EnvNames :
          \E value \in EnvValues(name) :
              environ' = [environ EXCEPT ![name] = value]
    /\ UNCHANGED <<input_handler, heap, built, acquisitions, fs, cli>>
    /\ UNCHANGED <<services, methods, params, pc, idx, header, token, iter,
                   propagated, calls, recv, given, errors, prev>>
    /\ UNCHANGED <<service_orchestrator, objects, last_call>>

\* InputHandler(environment): the object is there unless __init__ raised.
InputHandler_init ==
    /\ input_handler = <<>>
    /\ acquisitions = <<>>
    /\ \E outcome \in ManagerOutcomes :
          LET made == Construct(environ, TestEnvironment, outcome)
          IN  /\ acquisitions' = Append(acquisitions,
                    made.request @@ [outcome |-> outcome.kind,
                                     raised |-> made.raised])
              /\ IF made.raised
                 THEN UNCHANGED <<input_handler, heap, built>>
                 ELSE /\ input_handler' = <<[made.object EXCEPT !.header = "base"]>>
                      /\ heap' = [heap EXCEPT !["base"] = made.object.header]
                      /\ built' = made.object.header
    /\ UNCHANGED <<environ, fs, cli>>
    /\ UNCHANGED <<services, methods, params, pc, idx, header, token, iter,
                   propagated, calls, recv, given, errors, prev>>
    /\ UNCHANGED <<service_orchestrator, objects, last_call>>

NextInput ==
    \/ setenv
    \/ InputHandler_init

SpecInput == Init /\ [][NextInput]_vars

\* The four Locust variables of the detection.
LocustNames == {"LOCUST_HOST", "LOCUST_USERS", "LOCUST_RUN_TIME", "LOCUST_SPAWN_RATE"}

\* The InputHandler constructed in the session, if construction was tried.
Constructed == acquisitions # <<>> /\ "outcome" \in DOMAIN acquisitions[1]

\* C21: the environment decision is a function of AZURE_LOAD_TEST and the
\* four LOCUST_* variables alone: the handler takes the managed-identity
\* path, and reads partition, host and app id from the process environment,
\* exactly when AZURE_LOAD_TEST is "true" or one of the four is set (to
\* anything, the empty string included); with none of them present it takes
\* the developer path whatever PARTITION and APPID hold.
C21_EnvironmentDecision ==
    Constructed =>
        LET managed == \/ environ["AZURE_LOAD_TEST"] = <<"true">>
                       \/ \E n \in LocustNames : environ[n] # <<>>
        IN  /\ acquisitions[1].use_managed_identity = managed
            /\ input_handler # <<>> =>
                  /\ input_handler[1].is_azure_load_test_env = managed
                  /\ ~managed =>
                        /\ input_handler[1].partition = "test-partition"
                        /\ input_handler[1].base_url = "https://test.osdu.com"
                        /\ input_handler[1].app_id = "test-app"

C21_Witness ==
    /\ Constructed
    /\ input_handler # <<>>
    /\ environ["AZURE_LOAD_TEST"] = <<"false">>
    /\ environ["LOCUST_SPAWN_RATE"] = <<"">>
    /\ \A n \in LocustNames \ {"LOCUST_SPAWN_RATE"} : environ[n] = <<>>
    /\ environ["APPID"] = <<"alt-app">>
    /\ acquisitions[1].use_managed_identity
    /\ input_handler[1].app_id = "alt-app"

\* C22: a failure to acquire the token during session start, the token
\* manager handing back no token or raising, never makes the construction of
\* the InputHandler fail: the object is there and its header set carries
\* Content-Type, x-data-partition-id and x-correlation-id, the Authorization
\* entry being absent or worthless.
C22_TokenFailureHarmless ==
    (Constructed /\ (acquisitions[1].outcome = "raise" \/ acquisitions[1].ret = None)) =>
        /\ ~acquisitions[1].raised
        /\ input_handler # <<>>
        /\ {"Content-Type", "x-data-partition-id", "x-correlation-id"}
              \subseteq DOMAIN heap[input_handler[1].header]
        /\ heap[input_handler[1].header]["Content-Type"] = "application/json"
        /\ heap[input_handler[1].header]["x-data-partition-id"] = input_handler[1].partition
        /\ heap[input_handler[1].header]["x-correlation-id"] = input_handler[1].app_id
        /\ "Authorization" \in DOMAIN heap[input_handler[1].header] =>
              heap[input_handler[1].header]["Authorization"] = "Bearer None"

\* The token manager raised and no InputHandler came of the construction.
C22_Witness ==
    /\ Constructed
    /\ acquisitions[1].outcome = "raise"
    /\ acquisitions[1].raised
    /\ input_handler = <<>>

\* C23: within one session the bearer token is asked of the token manager
\* exactly once, by the construction of the InputHandler in on_start: none
\* before on_start, one after it, and no pass of execute_services, however
\* many services it drives, adds a request.
C23_TokenAcquiredOnce ==
    /\ input_handler = <<>> => acquisitions = <<>>
    /\ input_handler # <<>> =>
          /\ Len(acquisitions) = 1
          /\ acquisitions[1].scope = "api://" \o input_handler[1].app_id \o "/.default"
          /\ built["Authorization"] = "Bearer " \o Format(acquisitions[1].ret)

C23_Witness ==
    /\ iter = 2
    /\ idx = 2
    /\ pc = "posthook"
    /\ Len(acquisitions) = 1
    /\ Called("execute")

\* C30: a PerformanceUser whose list of services is empty, on_start not
\* having run (input_handler unset) or discovery having registered nothing,
\* goes through execute_services without an exception leaving it, without
\* a lifecycle call and without reading the header provider (no private
\* copy of the headers is made); and every lifecycle call is made on a
\* service get_services() returned in on_start.
C30_EmptyListIsHarmless ==
    /\ services = <<>> =>
          /\ ~propagated
          /\ pc \in {"idle", "for"}
          /\ idx = 0
          /\ calls = <<>>
          /\ errors = <<>>
          /\ DOMAIN recv = {}
          /\ heap["copy"] = EmptyDict
    /\ input_handler = <<>> => services = <<>>
    /\ services = service_orchestrator._services
    /\ \A i \in DOMAIN calls :
          \E k \in DOMAIN service_orchestrator._services :
              calls[i].svc = service_orchestrator._services[k]

\* Two passes of execute_services are over, the later one after a discovery
\* that registered nothing.
C30_Witness ==
    /\ iter = 2
    /\ pc = "idle"
    /\ input_handler # <<>>
    /\ last_call.name = "register_service"
    /\ services = <<>>
    /\ ~propagated

\* What the call did to the dict it was handed, read off its record.
MutationOf(call) == CHOOSE m \in Mutations(call.svc) : m.key = call.wrote

\* The calls of the turn that entered their hook, in order.
Entered == SelectSeq(calls, LAMBDA c : c.stage \in DOMAIN recv)

\* C26: within the turn of one service, prehook, execute and posthook are
\* handed one and the same header dict, the private copy with the token
\* override applied: each hook finds the dict exactly as the hook before
\* left it, so a header prehook set is there for execute and posthook, and
\* Authorization is the same in all three calls unless the service wrote it.
C26_HooksShareHeaderCopy ==
    (InTurn /\ DOMAIN recv # {}) =>
        LET entered == Entered
            authorization == IF Overridden THEN "Bearer " \o token[1].val
                             ELSE built["Authorization"]
        IN  /\ \A st \in DOMAIN given : given[st].headers = header /\ header = "copy"
            /\ \A i \in 1 .. Len(entered) - 1 :
                  recv[entered[i + 1].stage] =
                      Mutate(recv[entered[i].stage], MutationOf(entered[i]))
            /\ (\A i \in DOMAIN calls : calls[i].wrote # "Authorization") =>
                  \A st \in DOMAIN recv : recv[st]["Authorization"] = authorization

C26_Witness ==
    /\ InTurn
    /\ Overridden
    /\ DOMAIN recv = HookNames
    /\ \E i \in DOMAIN calls : calls[i].stage = "prehook" /\ calls[i].wrote = "modified"
    /\ recv["execute"]["modified"] = MarkOf(Service)
    /\ recv["posthook"]["modified"] = MarkOf(Service)
    /\ recv["posthook"]["Authorization"] = "Bearer " \o TokenOf(Service)

\* C24: a class derived from BaseService that leaves one of execute,
\* provide_explicit_token, prehook and posthook undefined cannot be
\* instantiated: no instance of such a class is ever made, so none is ever
\* in the registry to fail at a lifecycle call for lack of the method; the
\* discovery that met the class reports it and raises nothing.
C24_IncompleteNeverRegistered ==
    /\ \A inst \in DOMAIN objects : objects[inst].defines = AbstractMethods
    /\ \A k \in DOMAIN service_orchestrator._services :
          objects[service_orchestrator._services[k]].defines = AbstractMethods
    /\ (/\ last_call.name = "register_service"
        /\ \E i \in DOMAIN last_call.arg : last_call.arg[i] = IncompleteFile) =>
          /\ ~last_call.raised
          /\ \E i \in DOMAIN last_call.printed :
                last_call.printed[i] = "Failed to load test module"

\* A scan met the file with the incomplete class and then the search file:
\* the first was reported, the service of the second registered.
C24_Witness ==
    /\ last_call.name = "register_service"
    /\ last_call.arg = <<IncompleteFile, SearchFile>>
    /\ last_call.printed = <<"Failed to load test module">>
    /\ Len(Appended) = 1
    /\ objects[Appended[1]].name = <<"search">>

\* ------------------------------------------------------- the cli's commands
\* The commands of the cli run one after another in a working directory the
\* user has prepared.
NotCli == <<Driver, service_orchestrator, objects, last_call, environ, acquisitions>>

\* The working directory as the user left it before the first command:
\* perf_tests/ with any of the project files in it, or no perf_tests/.
workdir ==
    /\ cli = NoCommand
    /\ \E files \in [ProjectFiles -> {"absent", "user"}] :
          fs' = [dir |-> TRUE, files |-> files, backup |-> <<>>]
    /\ UNCHANGED cli
    /\ UNCHANGED NotCli

\* The choices _should_create_file is called with here: those init_project
\* passes and some it never passes.
Choices == Accepted \cup {<<"x">>, <<>>}

\* One call of _should_create_file(filepath, choice).
should_create_file_call ==
    /\ \E filepath \in ProjectFiles, choice \in Choices :
          cli' = [name |-> "_should_create_file", filepath |-> filepath,
                  choice |-> choice, exists |-> fs.files[filepath] # "absent",
                  ret |-> should_create_file(fs.files, filepath, choice)]
    /\ UNCHANGED fs
    /\ UNCHANGED NotCli

\* osdu-perf init storage [--force]; nothing is typed and nothing copied
\* unless the command asks.
init_project ==
    /\ \E force \in BOOLEAN :
          \E answers \in IF Asks(fs, force) THEN AnswerSequences ELSE {<<>>},
             copytree \in IF Asks(fs, force) THEN {"ok", "raise"} ELSE {"ok"} :
          LET r == InitProject(fs, force, answers, copytree)
          IN  /\ fs' = r.fs
              /\ cli' = [name |-> "init_project", before |-> fs, force |-> r.force,
                         answers |-> r.answers, prompts |-> r.prompts,
                         choice |-> r.choice, backed_up |-> r.backed_up,
                         wrote |-> r.wrote, ended |-> r.ended]
    /\ UNCHANGED NotCli

\* osdu-perf run azure_load_test ...
run_azure_load_tests ==
    /\ \E prelude \in Preludes :
          \E found \in IF prelude.at = "search" THEN FoundLists ELSE {<<>>},
             success \in IF prelude.at = "search" THEN BOOLEAN ELSE {FALSE} :
          cli' = IF prelude.at # "search"
                 THEN [name |-> "run_azure_load_tests", found |-> <<>>,
                       searched |-> FALSE, test_files |-> <<>>,
                       temp_locustfile |-> FALSE, packaged |-> <<>>,
                       uploaded |-> FALSE, printed |-> prelude.printed,
                       exit |-> prelude.exit]
                 ELSE [name |-> "run_azure_load_tests", searched |-> TRUE]
                      @@ RunAzureLoadTests(found, success)
    /\ UNCHANGED fs
    /\ UNCHANGED NotCli

NextCli ==
    \/ workdir
    \/ should_create_file_call
    \/ init_project
    \/ run_azure_load_tests

SpecCli == Init /\ [][NextCli]_vars

\* C25: _should_create_file(path, choice) is true for 'o' and for 'b'
\* whether the file exists or not, true for 's' exactly when the file does
\* not exist, and false for every other choice.
C25_ShouldCreateFile ==
    cli.name = "_should_create_file" =>
        cli.ret = (\/ cli.choice = <<"o">>
                   \/ cli.choice = <<"b">>
                   \/ cli.choice = <<"s">> /\ ~cli.exists)

\* The function was asked about a file that does not exist with the word
\* "skip" as the choice, and said no.
C25_Witness ==
    /\ cli.name = "_should_create_file"
    /\ cli.choice = <<"s", "k", "i", "p">>
    /\ ~cli.exists
    /\ ~cli.ret

\* The files of the project that were there before the last command.
ExistedBefore == {f \in ProjectFiles : cli.before.files[f] # "absent"}

\* init_project found the test file, was not forced, asked, and went on to
\* the creation of the files.
AskedAndWentOn ==
    /\ cli.name = "init_project"
    /\ cli.before.dir
    /\ cli.before.files[TestFilename] # "absent"
    /\ ~cli.force
    /\ cli.ended = "done"

\* C27: when the test file of the service exists and force is false, every
\* answer the prompt accepts other than cancel - 'o' or 'overwrite', 's' or
\* 'skip', 'b' or 'backup' - leads to the file creation of that mode:
\* overwrite and backup write all four project files, skip writes exactly
\* the files that do not exist yet.
C27_AnswerSelectsMode ==
    AskedAndWentOn =>
        /\ cli.prompts >= 1
        /\ cli.choice \in {overwrite, <<"o">>} => cli.wrote = ProjectFiles
        /\ cli.choice \in {backup, <<"b">>} =>
              /\ cli.wrote = ProjectFiles
              /\ cli.backed_up
              /\ fs.backup = <<cli.before.files>>
        /\ cli.choice \in {skip, <<"s">>} =>
              cli.wrote = ProjectFiles \ ExistedBefore
        /\ \A f \in ProjectFiles :
              fs.files[f] = IF f \in cli.wrote THEN "template" ELSE cli.before.files[f]

\* The user answered "overwrite" in full and no file was written.
C27_Witness ==
    /\ AskedAndWentOn
    /\ cli.answers = <<overwrite>>
    /\ cli.wrote = {}
    /\ fs.files = cli.before.files

\* C28: when perf_tests/ exists, the test file of the service does not, and
\* force is false, init_project asks nothing, leaves every project file that
\* exists as it is, and creates exactly the files that are missing.
C28_MissingTestFileFillsIn ==
    (/\ cli.name = "init_project"
     /\ cli.before.dir
     /\ cli.before.files[TestFilename] = "absent"
     /\ ~cli.force) =>
        /\ cli.prompts = 0
        /\ cli.answers = <<>>
        /\ cli.ended = "done"
        /\ cli.wrote = ProjectFiles \ ExistedBefore
        /\ \A f \in ExistedBefore : fs.files[f] = cli.before.files[f]
        /\ \A f \in ProjectFiles \ ExistedBefore : fs.files[f] = "template"
        /\ fs.backup = cli.before.backup

\* The directory held a README.md and a requirements.txt of the user's: the
\* two are as they were, the test file and azureloadtest.py were created.
C28_Witness ==
    /\ cli.name = "init_project"
    /\ ~cli.force
    /\ cli.before.dir
    /\ cli.before.files[TestFilename] = "absent"
    /\ cli.before.files["README.md"] = "user"
    /\ cli.before.files["requirements.txt"] = "user"
    /\ cli.before.files["azureloadtest.py"] = "absent"
    /\ fs.files["README.md"] = "user"
    /\ fs.files["requirements.txt"] = "user"
    /\ cli.wrote = {TestFilename, "azureloadtest.py"}

\* C29: whenever find_test_files returns an empty list, run_azure_load_tests
\* exits with status 1 after the message that no test files were found,
\* and neither creates a test package nor uploads one.
C29_NoTestFilesExits ==
    (/\ cli.name = "run_azure_load_tests"
     /\ cli.searched
     /\ cli.found = <<>>) =>
        /\ cli.exit = <<1>>
        /\ cli.printed = "No test files found"
        /\ cli.packaged = <<>>
        /\ ~cli.uploaded

\* The search found nothing, and a package holding the temporary locustfile
\* alone was made and uploaded.
C29_Witness ==
    /\ cli.name = "run_azure_load_tests"
    /\ cli.searched
    /\ cli.found = <<>>
    /\ cli.temp_locustfile
    /\ cli.packaged = <<TempLocustfilePath>>
    /\ cli.uploaded
    /\ cli.exit = <<>>

=============================================================================
